---- MODULE Spec2Model ----
(***************************************************************************)
(* Model of tools/plot/plot.py: a one-shot batch pipeline that resolves a  *)
(* log source, parses it line by line, sorts the records by timestamp and  *)
(* writes two chart files.  One run of main() is one behaviour.            *)
(***************************************************************************)
EXTENDS Integers, Sequences, FiniteSets

\* Longest input stream explored.
MaxLines == 3

\* exitStatus of a process that has not terminated yet.
Running == 0 - 1

(***************************************************************************)
(* Input text.  A numeric field is a sequence of characters; a timestamp   *)
(* field is one of a few literal texts; a line is its stripped body plus   *)
(* a flag telling whether whitespace (such as the newline) surrounds it.   *)
(***************************************************************************)
Digits == {"0", "1", "2", "3", "4", "5", "6", "7", "8", "9"}

\* value of one digit character
DigitVal(c) ==
    CASE c = "0" -> 0 [] c = "1" -> 1 [] c = "2" -> 2 [] c = "3" -> 3
      [] c = "4" -> 4 [] c = "5" -> 5 [] c = "6" -> 6 [] c = "7" -> 7
      [] c = "8" -> 8 [] c = "9" -> 9

\* the character class [\d\.] of the RSS, VSZ, CPU and Uptime groups
NumClass == Digits \cup {"."}

\* ([\d\.]+)\s*\| : the field is non-empty and made of class characters only
NumGroupMatches(txt) ==
    /\ Len(txt) >= 1
    /\ \A i \in 1..Len(txt) : txt[i] \in NumClass

CountDots(txt) == Cardinality({i \in 1..Len(txt) : txt[i] = "."})

CountDigits(txt) == Cardinality({i \in 1..Len(txt) : txt[i] \in Digits})

\* float(txt) succeeds on a matched group iff it has a digit and at most one dot
FloatParses(txt) == CountDigits(txt) >= 1 /\ CountDots(txt) <= 1

RECURSIVE Mantissa(_)
\* the digits of txt read as one integer, the dot skipped
Mantissa(txt) ==
    IF txt = <<>> THEN 0
    ELSE LET c == txt[Len(txt)]
             rest == SubSeq(txt, 1, Len(txt) - 1)
         IN IF c = "." THEN Mantissa(rest)
            ELSE 10 * Mantissa(rest) + DigitVal(c)

\* number of digits after the dot
Scale(txt) ==
    IF CountDots(txt) = 0 THEN 0
    ELSE Len(txt) - (CHOOSE i \in 1..Len(txt) : txt[i] = ".")

\* float(txt): the value as mantissa * 10^-scale
Float(txt) == [mant |-> Mantissa(txt), scale |-> Scale(txt)]

\* the timestamp texts explored: two UTC instants, a text of class
\* characters that is no date (NoDate), and a text outside the class (Word)
T1 == "2024-01-01T00:00:00Z"

T2 == "2024-01-02T00:00:00Z"

NoDate == "2024-13-45T00:00:00Z"

Word == "yesterday"

TsTexts == {T1, T2, NoDate, Word}

\* ([\d\-\:T\.Z]+) : the group needs at least one leading class character
TsGroupMatches(ts) == ts \in TsTexts \ {Word}

\* pd.to_datetime(ts) raises on a text that is no date-time
ToDatetimeParses(ts) == ts \in {T1, T2}

\* pd.to_datetime(ts): the instant, in days since 2023-12-31
ToDatetime(ts) ==
    CASE ts = T1 -> 1
      [] ts = T2 -> 2

\* a body carrying every label and delimiter of the pattern; rss stands for
\* the four groups of class [\d\.] (RSS, VSZ, CPU, Uptime), which the code
\* treats alike, and the digit groups PID and Threads always convert
EntryBody(name, rss, ts) == [form |-> "entry", name |-> name, rss |-> rss, ts |-> ts]

EmptyBody == [form |-> "empty", name |-> "", rss |-> <<>>, ts |-> ""]

\* text without the 'PID:' label
GarbageBody == [form |-> "garbage", name |-> "", rss |-> <<>>, ts |-> ""]

TextLine(pad, body) == [pad |-> pad, body |-> body]

\* the lines an input stream is drawn from
Lines ==
    { TextLine(TRUE, EmptyBody),
      TextLine(TRUE, GarbageBody),
      TextLine(TRUE, EntryBody("foo", <<"1", "2", ".", "5">>, T1)),
      TextLine(FALSE, EntryBody("foo", <<"7">>, T2)),
      TextLine(TRUE, EntryBody("bar", <<".", "5">>, T1)),
      TextLine(TRUE, EntryBody("bar", <<"3", ".">>, T2)),
      TextLine(TRUE, EntryBody("foo", <<"1", ".", "2", ".", "3">>, T1)),
      TextLine(TRUE, EntryBody("foo", <<".">>, T2)),
      TextLine(TRUE, EntryBody("foo", <<"1", "x">>, T1)),
      TextLine(TRUE, EntryBody("foo", <<"7">>, NoDate)),
      TextLine(TRUE, EntryBody("foo", <<"7">>, Word)) }

Streams == UNION {[1..n -> Lines] : n \in 0..MaxLines}

(***************************************************************************)
(* Pure functions of the program.                                          *)
(***************************************************************************)
\* a strip() that leaves the surrounding whitespace in place
StripKeepsWhitespace(line) == line

\* line.strip()
Strip(line) == [pad |-> FALSE, body |-> line.body]

\* 'not line' of process_logs
IsEmpty(line) == ~line.pad /\ line.body.form = "empty"

\* re.match(pattern, line): anchored at the first character
Matches(line) ==
    /\ ~line.pad
    /\ line.body.form = "entry"
    /\ NumGroupMatches(line.body.rss)
    /\ TsGroupMatches(line.body.ts)

\* the conversions of the dict display raise ValueError
Raises(line) ==
    Matches(line) /\ (~FloatParses(line.body.rss) \/ ~ToDatetimeParses(line.body.ts))

\* the dict parse_log_line returns for a matching line
Entry(line) ==
    [Name |-> line.body.name,
     RSS_MB |-> Float(line.body.rss),
     Last_Checked |-> ToDatetime(line.body.ts)]

\* a parser that gives up at the first line that does not match
ParseLogLineStopsOnMismatch(line) ==
    IF Matches(line)
    THEN IF Raises(line) THEN "raise" ELSE "entry"
    ELSE "raise"

\* a parser that catches the failure of pd.to_datetime and reports the line
ParseLogLineSkipsBadTimestamp(line) ==
    IF Matches(line)
    THEN IF ~FloatParses(line.body.rss) THEN "raise"
         ELSE IF ~ToDatetimeParses(line.body.ts) THEN "none" ELSE "entry"
    ELSE "none"

\* parse_log_line: "entry", "none" (with a diagnostic) or "raise"
ParseLogLine(line) ==
    IF Matches(line)
    THEN IF Raises(line) THEN "raise" ELSE "entry"
    ELSE "none"

\* pd.DataFrame(data): the rows under a RangeIndex
DataFrame(rows) == [i \in 1..Len(rows) |-> [idx |-> i - 1, row |-> rows[i]]]

IsSortedByTime(frame) ==
    \A i, j \in 1..Len(frame) :
        i < j => frame[i].row.Last_Checked <= frame[j].row.Last_Checked

Orderings(n) == {p \in [1..n -> 1..n] : \A i, j \in 1..n : i # j => p[i] # p[j]}

\* a frame left in input order
SortValuesUnsorted(frame) == {frame}

\* a sort that keeps the first row of every timestamp only
SortValuesDropDuplicates(frame) ==
    LET first == SelectSeq(frame, LAMBDA r :
                     \A q \in 1..Len(frame) :
                         frame[q].row.Last_Checked = r.row.Last_Checked => frame[q].idx >= r.idx)
    IN {s \in {[i \in 1..Len(first) |-> first[p[i]]] : p \in Orderings(Len(first))} :
           IsSortedByTime(s)}

\* df.sort_values(by="Last_Checked"): the default kind is quicksort, which
\* orders the rows by key and leaves the order of equal keys open
SortValues(frame) ==
    {s \in {[i \in 1..Len(frame) |-> frame[p[i]]] : p \in Orderings(Len(frame))} :
        IsSortedByTime(s)}

(***************************************************************************)
(* State.                                                                  *)
(***************************************************************************)
VARIABLES
    hasArg,        \* len(sys.argv) > 1
    openable,      \* open(sys.argv[1]) succeeds
    isatty,        \* sys.stdin.isatty()
    stream,        \* the lines the source yields
    pc,            \* position of main
    log_source,    \* "none", "file" or "stdin"
    should_close,  \* the flag read_log_source returns
    closed,        \* the sources close() was called on
    pos,           \* index of the next line of the for loop
    data,          \* the list process_logs builds
    calls,         \* the arguments of the calls of parse_log_line
    out,           \* the messages printed
    df,            \* the frame handed to generate_plots
    files,         \* the names passed to write_html, in order
    error,         \* the uncaught exception, or "none"
    exitStatus     \* the exit status, Running before the end

vars == <<hasArg, openable, isatty, stream, pc, log_source, should_close, closed,
          pos, data, calls, out, df, files, error, exitStatus>>

env == <<hasArg, openable, isatty, stream>>

Init ==
    /\ hasArg \in BOOLEAN
    /\ openable \in BOOLEAN
    /\ isatty \in BOOLEAN
    /\ stream \in Streams
    /\ pc = "read_log_source"
    /\ log_source = "none"
    /\ should_close = FALSE
    /\ closed = {}
    /\ pos = 1
    /\ data = <<>>
    /\ calls = <<>>
    /\ out = <<>>
    /\ df = <<>>
    /\ files = <<>>
    /\ error = "none"
    /\ exitStatus = Running

Message(kind, line) == [msg |-> kind, line |-> line]

NoLine == TextLine(FALSE, EmptyBody)

\* sys.exit(1) after a message
ExitWith(kind) ==
    /\ out' = Append(out, Message(kind, NoLine))
    /\ pc' = "exited"
    /\ exitStatus' = 1

\* a read_log_source that tests the terminal before the argument
ReadLogSourceTtyFirst ==
    /\ pc = "read_log_source"
    /\ IF isatty
       THEN /\ ExitWith("Usage:")
            /\ UNCHANGED <<log_source, should_close>>
       ELSE IF ~hasArg
            THEN /\ log_source' = "stdin"
                 /\ should_close' = FALSE
                 /\ pc' = "process_logs"
                 /\ UNCHANGED <<out, exitStatus>>
            ELSE IF openable
                 THEN /\ log_source' = "file"
                      /\ should_close' = TRUE
                      /\ pc' = "process_logs"
                      /\ UNCHANGED <<out, exitStatus>>
                 ELSE /\ ExitWith("Error opening file:")
                      /\ UNCHANGED <<log_source, should_close>>
    /\ UNCHANGED <<env, closed, pos, data, calls, df, files, error>>

\* read_log_source()
ReadLogSource ==
    /\ pc = "read_log_source"
    /\ IF hasArg
       THEN IF openable
            THEN /\ log_source' = "file"
                 /\ should_close' = TRUE
                 /\ pc' = "process_logs"
                 /\ UNCHANGED <<out, exitStatus>>
            ELSE /\ ExitWith("Error opening file:")
                 /\ UNCHANGED <<log_source, should_close>>
       ELSE IF isatty
            THEN /\ ExitWith("Usage:")
                 /\ UNCHANGED <<log_source, should_close>>
            ELSE /\ log_source' = "stdin"
                 /\ should_close' = FALSE
                 /\ pc' = "process_logs"
                 /\ UNCHANGED <<out, exitStatus>>
    /\ UNCHANGED <<env, closed, pos, data, calls, df, files, error>>

\* one iteration of the for loop of process_logs
ProcessLine ==
    /\ pc = "process_logs"
    /\ pos <= Len(stream)
    /\ LET line == Strip(stream[pos])
       IN IF IsEmpty(line)
          THEN /\ pos' = pos + 1
               /\ UNCHANGED <<pc, data, calls, out, error, exitStatus>>
          ELSE /\ calls' = Append(calls, line)
               /\ CASE ParseLogLine(line) = "entry" ->
                         /\ data' = Append(data, Entry(line))
                         /\ pos' = pos + 1
                         /\ UNCHANGED <<pc, out, error, exitStatus>>
                    [] ParseLogLine(line) = "none" ->
                         /\ out' = Append(out, Message("Line did not match the expected format:", line))
                         /\ pos' = pos + 1
                         /\ UNCHANGED <<pc, data, error, exitStatus>>
                    [] ParseLogLine(line) = "raise" ->
                         /\ error' = "ValueError"
                         /\ pc' = "exited"
                         /\ exitStatus' = 1
                         /\ UNCHANGED <<pos, data, out>>
    /\ UNCHANGED <<env, log_source, should_close, closed, df, files>>

\* the for loop ends and process_logs returns data
ProcessLogsReturn ==
    /\ pc = "process_logs"
    /\ pos > Len(stream)
    /\ pc' = "close"
    /\ UNCHANGED <<env, log_source, should_close, closed, pos, data, calls, out,
                   df, files, error, exitStatus>>

\* if should_close: log_source.close()
CloseSource ==
    /\ pc = "close"
    /\ closed' = IF should_close THEN closed \cup {log_source} ELSE closed
    /\ pc' = "check"
    /\ UNCHANGED <<env, log_source, should_close, pos, data, calls, out, df, files,
                   error, exitStatus>>

\* a main without the empty-result exit
CheckDataNoExit ==
    /\ pc = "check"
    /\ pc' = "sort"
    /\ UNCHANGED <<env, log_source, should_close, closed, pos, data, calls, out, df,
                   files, error, exitStatus>>

\* if not data: print(...); sys.exit(1)
CheckData ==
    /\ pc = "check"
    /\ IF data = <<>>
       THEN ExitWith("No valid log entries found.")
       ELSE /\ pc' = "sort"
            /\ UNCHANGED <<out, exitStatus>>
    /\ UNCHANGED <<env, log_source, should_close, closed, pos, data, calls, df,
                   files, error>>

\* df = pd.DataFrame(data); df.sort_values(by="Last_Checked", inplace=True)
SortFrame ==
    /\ pc = "sort"
    /\ df' \in SortValues(DataFrame(data))
    /\ pc' = "write_cpu"
    /\ UNCHANGED <<env, log_source, should_close, closed, pos, data, calls, out,
                   files, error, exitStatus>>

\* a generate_plots that renders the memory chart first
WriteCpuSwapped ==
    /\ pc = "write_cpu"
    /\ files' = Append(files, "rss_usage.html")
    /\ pc' = "write_rss"
    /\ UNCHANGED <<env, log_source, should_close, closed, pos, data, calls, out,
                   df, error, exitStatus>>

\* generate_plots: fig_cpu.write_html("cpu_usage.html")
WriteCpu ==
    /\ pc = "write_cpu"
    /\ files' = Append(files, "cpu_usage.html")
    /\ pc' = "write_rss"
    /\ UNCHANGED <<env, log_source, should_close, closed, pos, data, calls, out,
                   df, error, exitStatus>>

\* generate_plots: fig_rss.write_html("rss_usage.html"); main returns
WriteRss ==
    /\ pc = "write_rss"
    /\ files' = Append(files, "rss_usage.html")
    /\ pc' = "exited"
    /\ exitStatus' = 0
    /\ UNCHANGED <<env, log_source, should_close, closed, pos, data, calls, out,
                   df, error>>

Next ==
    \/ ReadLogSource
    \/ ProcessLine
    \/ ProcessLogsReturn
    \/ CloseSource
    \/ CheckData
    \/ SortFrame
    \/ WriteCpu
    \/ WriteRss

Spec == Init /\ [][Next]_vars

(***************************************************************************)
(* Vocabulary of the properties.                                           *)
(***************************************************************************)
\* the line is empty once leading and trailing whitespace is removed
BlankLine(line) == line.body.form = "empty"

\* the stripped line matches the pattern
MatchingLine(line) == Matches([pad |-> FALSE, body |-> line.body])

\* read_log_source returned a stream
SourceResolved == log_source # "none"

\* the for loop of process_logs has consumed every line
StreamExhausted == SourceResolved /\ pos > Len(stream)

\* generate_plots has been called with df
HandedToPlots == pc \in {"write_cpu", "write_rss"} \/ (pc = "exited" /\ exitStatus = 0)

IsDiagnostic(m) == m.msg = "Line did not match the expected format:"

Diagnostics == SelectSeq(out, IsDiagnostic)

LastMessage == out[Len(out)].msg

\* the for loop is about to take the line at pos
AtLine == pc = "process_logs" /\ pos <= Len(stream)

(***************************************************************************)
(* C1: when no line of the resolved stream yields a record (the stream is  *)
(* empty or holds only blank and non-matching lines), no chart file is     *)
(* ever written and the run ends with status 1 right after printing the    *)
(* 'no valid entries' message.                                             *)
(***************************************************************************)
NoRecordStream ==
    \A i \in 1..Len(stream) : BlankLine(stream[i]) \/ ~MatchingLine(stream[i])

C1_NoEntriesExit ==
    (SourceResolved /\ NoRecordStream) =>
        /\ files = <<>>
        /\ pc = "exited" =>
              /\ exitStatus = 1
              /\ error = "none"
              /\ out # <<>>
              /\ LastMessage = "No valid log entries found."

C1_Witness ==
    /\ pc = "exited"
    /\ SourceResolved
    /\ NoRecordStream
    /\ \E i, j \in 1..Len(stream) : BlankLine(stream[i]) /\ ~BlankLine(stream[j])

(***************************************************************************)
(* C2: the frame handed to generate_plots is non-decreasing by             *)
(* Last_Checked and is a permutation of the list process_logs collected:   *)
(* every collected record appears exactly once, none is added, none is     *)
(* dropped as a duplicate.                                                 *)
(***************************************************************************)
IsPermutationOfData(frame) ==
    /\ Len(frame) = Len(data)
    /\ \A k \in 1..Len(data) : \E i \in 1..Len(frame) : frame[i].idx = k - 1
    /\ \A i \in 1..Len(frame) :
          /\ frame[i].idx \in 0..(Len(data) - 1)
          /\ frame[i].row = data[frame[i].idx + 1]

C2_SortedPermutation ==
    HandedToPlots =>
        /\ \A i \in 1..(Len(df) - 1) : df[i].row.Last_Checked <= df[i + 1].row.Last_Checked
        /\ IsPermutationOfData(df)

C2_Witness ==
    /\ HandedToPlots
    /\ Len(data) = 3
    /\ data[1].Last_Checked > data[2].Last_Checked
    /\ data[1] = data[3]

(***************************************************************************)
(* C3 as stated: the sort is stable, two records with the same             *)
(* Last_Checked keep their input order in the frame handed to              *)
(* generate_plots.                                                         *)
(***************************************************************************)
C3_StableSort ==
    HandedToPlots =>
        \A i, j \in 1..Len(df) :
            (i < j /\ df[i].row.Last_Checked = df[j].row.Last_Checked)
                => df[i].idx < df[j].idx

(***************************************************************************)
(* C3 amended: two collected records with the same Last_Checked both       *)
(* appear in the frame handed to generate_plots with no record of another  *)
(* timestamp between them; their relative order is not fixed.              *)
(***************************************************************************)
C3_TiesContiguous ==
    HandedToPlots =>
        \A a, b \in 1..Len(data) :
            (a < b /\ data[a].Last_Checked = data[b].Last_Checked) =>
                \E i, j \in 1..Len(df) :
                    /\ df[i].idx = a - 1
                    /\ df[j].idx = b - 1
                    /\ \A k \in 1..Len(df) :
                          ((i < k /\ k < j) \/ (j < k /\ k < i))
                              => df[k].row.Last_Checked = data[a].Last_Checked

C3_Witness ==
    /\ HandedToPlots
    /\ Len(df) = 3
    /\ \E i, j \in 1..Len(df) :
          /\ i < j
          /\ df[i].row.Last_Checked = df[j].row.Last_Checked
          /\ df[i].idx > df[j].idx
    /\ data[1].Last_Checked # data[2].Last_Checked

(***************************************************************************)
(* C4: a non-blank line that does not match adds no record, prints exactly *)
(* one diagnostic naming the line, and the loop goes on to the next line;  *)
(* once the stream is exhausted the list holds the records of the matching *)
(* lines in input order and records + diagnostics = non-blank lines.       *)
(***************************************************************************)
RECURSIVE RecordsOf(_)
RecordsOf(lines) ==
    IF lines = <<>> THEN <<>>
    ELSE LET l == lines[1]
         IN (IF MatchingLine(l)
             THEN <<[Name |-> l.body.name,
                     RSS_MB |-> Float(l.body.rss),
                     Last_Checked |-> ToDatetime(l.body.ts)]>>
             ELSE <<>>) \o RecordsOf(Tail(lines))

NonBlankCount == Cardinality({i \in 1..Len(stream) : ~BlankLine(stream[i])})

MismatchStep ==
    (AtLine /\ ~BlankLine(stream[pos]) /\ ~MatchingLine(stream[pos])) =>
        /\ data' = data
        /\ Len(out') = Len(out) + 1
        /\ out'[Len(out')] = [msg |-> "Line did not match the expected format:",
                              line |-> [pad |-> FALSE, body |-> stream[pos].body]]
        /\ pos' = pos + 1
        /\ pc' = "process_logs"
        /\ exitStatus' = Running

ExhaustedTotals ==
    StreamExhausted =>
        /\ data = RecordsOf(stream)
        /\ Len(data) + Len(Diagnostics) = NonBlankCount

C4_MismatchSkipped == [][MismatchStep]_vars /\ []ExhaustedTotals

C4_Witness ==
    /\ StreamExhausted
    /\ Len(data) = 1
    /\ Len(Diagnostics) = 1
    /\ Len(stream) = 3
    /\ ~MatchingLine(stream[1])
    /\ ~BlankLine(stream[1])

(***************************************************************************)
(* C5: a line that is empty after stripping is never passed to             *)
(* parse_log_line, prints nothing and adds no record, wherever it stands   *)
(* and however many there are.                                             *)
(***************************************************************************)
BlankStep ==
    (AtLine /\ BlankLine(stream[pos])) =>
        /\ calls' = calls
        /\ out' = out
        /\ data' = data

NoBlankParsed ==
    /\ \A i \in 1..Len(calls) : calls[i].body.form # "empty"
    /\ \A i \in 1..Len(out) : out[i].msg = "Line did not match the expected format:"
                                  => out[i].line.body.form # "empty"
    /\ Len(calls) = Cardinality({i \in 1..(pos - 1) : ~BlankLine(stream[i])})
                       + (IF error = "none" THEN 0 ELSE 1)

C5_BlankNeverParsed == [][BlankStep]_vars /\ []NoBlankParsed

C5_Witness ==
    /\ StreamExhausted
    /\ Len(stream) = 3
    /\ BlankLine(stream[1])
    /\ ~BlankLine(stream[2])
    /\ BlankLine(stream[3])
    /\ Len(calls) = 1

(***************************************************************************)
(* C6: read_log_source has four outcomes: (file, True) for a path that     *)
(* opens; exit 1 after an error message for a path that does not; exit 1   *)
(* after the usage message for no argument and a terminal; (stdin, False)  *)
(* for no argument and piped input.  With a path argument the usage        *)
(* message is never printed and stdin is never the source.                 *)
(***************************************************************************)
Returned(source, flag) ==
    /\ log_source' = source
    /\ should_close' = flag
    /\ pc' = "process_logs"
    /\ out' = out
    /\ exitStatus' = Running

ExitedAfter(message) ==
    /\ pc' = "exited"
    /\ exitStatus' = 1
    /\ Len(out') = 1
    /\ out'[1].msg = message
    /\ log_source' = "none"

ReadLogSourceStep ==
    pc = "read_log_source" =>
        /\ (hasArg /\ openable) => Returned("file", TRUE)
        /\ (hasArg /\ ~openable) => ExitedAfter("Error opening file:")
        /\ (~hasArg /\ isatty) => ExitedAfter("Usage:")
        /\ (~hasArg /\ ~isatty) => Returned("stdin", FALSE)

PathNeverStdin ==
    hasArg =>
        /\ log_source # "stdin"
        /\ \A i \in 1..Len(out) : out[i].msg # "Usage:"

C6_FourOutcomes == [][ReadLogSourceStep]_vars /\ []PathNeverStdin

C6_Witness ==
    /\ hasArg
    /\ isatty
    /\ openable
    /\ pc = "process_logs"
    /\ log_source = "file"
    /\ should_close

(***************************************************************************)
(* C7: however the run ends, a source opened from a path argument has      *)
(* been closed by then, and close() is never called on standard input.     *)
(***************************************************************************)
C7_ClosedOnEveryExit ==
    /\ "stdin" \notin closed
    /\ (pc = "exited" /\ log_source = "file") => "file" \in closed

(***************************************************************************)
(* C8: main runs resolve, process, close, validate, sort, render in that   *)
(* order: nothing is written before the stream is exhausted and an owned   *)
(* source closed, the empty-result check comes after the close,            *)
(* cpu_usage.html is written before rss_usage.html, and a run ending with  *)
(* status 0 has written each file exactly once.                            *)
(***************************************************************************)
OwnedSourceClosed == should_close => log_source \in closed

C8_PipelineOrder ==
    /\ closed # {} => StreamExhausted
    /\ pc \in {"check", "sort", "write_cpu", "write_rss"} =>
          (StreamExhausted /\ OwnedSourceClosed)
    /\ (out # <<>> /\ LastMessage = "No valid log entries found.") => OwnedSourceClosed
    /\ pc \in {"sort", "write_cpu", "write_rss"} => data # <<>>
    /\ df # <<>> => (data # <<>> /\ pc \notin {"check", "sort"})
    /\ files # <<>> => (StreamExhausted /\ OwnedSourceClosed /\ Len(df) = Len(data))
    /\ files \in {<<>>, <<"cpu_usage.html">>, <<"cpu_usage.html", "rss_usage.html">>}
    /\ (pc = "exited" /\ exitStatus = 0) => files = <<"cpu_usage.html", "rss_usage.html">>

C8_Witness ==
    /\ pc = "exited"
    /\ exitStatus = 0
    /\ log_source = "file"
    /\ Len(stream) = 3

(***************************************************************************)
(* C9: a line whose numeric field holds two or more dots, or only dots,    *)
(* does not match: it adds no record, prints one diagnostic, and the loop  *)
(* goes on to the next line without ending the run.                        *)
(***************************************************************************)
DotCount(txt) == Cardinality({i \in 1..Len(txt) : txt[i] = "."})

MalformedNumber(txt) == DotCount(txt) >= 2 \/ (Len(txt) >= 1 /\ DotCount(txt) = Len(txt))

MalformedNumberStep ==
    (AtLine /\ stream[pos].body.form = "entry" /\ MalformedNumber(stream[pos].body.rss)) =>
        /\ data' = data
        /\ Len(out') = Len(out) + 1
        /\ pos' = pos + 1
        /\ pc' = "process_logs"
        /\ exitStatus' = Running

C9_TwoDotsSkipped == [][MalformedNumberStep]_vars

(***************************************************************************)
(* C10: a matching line whose Last Checked text fails date-time parsing    *)
(* ends the run: the failure is not caught, no later line is processed,    *)
(* the status is non-zero and no chart file is written, even when earlier  *)
(* lines gave valid records.                                               *)
(***************************************************************************)
BadTimestampLine(line) == MatchingLine(line) /\ line.body.ts \notin {T1, T2}

BadTimestampStep ==
    (AtLine /\ BadTimestampLine(stream[pos])) =>
        /\ pc' = "exited"
        /\ exitStatus' = 1
        /\ error' # "none"
        /\ pos' = pos
        /\ data' = data
        /\ out' = out
        /\ files' = <<>>

Terminal == pc = "exited" => UNCHANGED vars

AfterBadTimestamp ==
    /\ \A i \in 1..Len(stream) : BadTimestampLine(stream[i]) => pos <= i
    /\ error # "none" => (pc = "exited" /\ exitStatus = 1 /\ files = <<>>)

====
